---- MODULE Spec2Model ----
(***************************************************************************)
(* Model of "Random Projects/goal.py": a script that prints a header,      *)
(* reads one line with input(), writes it to my_goal.txt through a         *)
(* text-mode handle opened with "w", prints a notice, reopens the file     *)
(* with "r", reads it back and prints a confirmation.                      *)
(*                                                                         *)
(* The model is of a CPython 3 build on a POSIX system: os.linesep is      *)
(* "\n", sys.stdin ends lines at "\n" only, a text-mode write is buffered  *)
(* until the handle is closed, open(.., "w") truncates at open time, and   *)
(* a text-mode read applies universal-newline translation.                 *)
(*                                                                         *)
(* Text is a sequence of one-character tokens: "a", "o", "CR" (\r) and     *)
(* "LF" (\n); longer literals of the source are kept as single tokens.     *)
(* Several runs of the script are processes sharing one directory.         *)
(***************************************************************************)
EXTENDS Integers, Sequences, FiniteSets, TLC

VARIABLES
    pc,             \* per run: the statement about to execute
    stdin,          \* per run: what is left to read on standard input
    my_goal,        \* per run: the variable my_goal (line 4)
    saved_content,  \* per run: the variable saved_content (line 14)
    handles,        \* per run: the open handles on the file, as [mode, linked]
    buf,            \* per run: text held in the write handle's buffer
    out,            \* per run: everything written to standard output
    err,            \* per run: the uncaught exception that ended it and
                    \* the statement that raised it
    fs,             \* the directory: per file name [exists, content,
                    \* readable], and writer: the run that changed the file
                    \* last, 0 for anybody else
    dirWritable,    \* whether a new file may be created in the directory
    diskFull,       \* whether the volume has no free block left
    consoleUtf8,    \* whether standard output can encode U+2705
    extOps          \* number of changes made so far by other actors

vars == <<pc, stdin, my_goal, saved_content, handles, buf, out, err, fs,
          dirWritable, diskFull, consoleUtf8, extOps>>

procVars == <<pc, stdin, my_goal, saved_content, handles, buf, out, err>>
envVars == <<dirWritable, diskFull, consoleUtf8>>

(***************************************************************************)
(* Bounds of the model.                                                    *)
(***************************************************************************)
MaxLen == 2     \* longest standard-input stream that is enumerated
MaxRuns == 2    \* number of runs made one after the other
MaxExt == 1     \* number of changes other actors make to the file

Instances == {1, 2}         \* two instances started in the same directory
Runs == 1..MaxRuns
ProcIds == Instances \cup Runs

Chars == {"a", "CR"}     \* an ordinary character and a carriage return

SeqsUpTo(S, n) == UNION {[1..k -> S] : k \in 0..n}
Texts == SeqsUpTo(Chars, MaxLen)

\* what standard input holds: nothing, or a line ended by a newline or by
\* the end of the stream
Streams == Texts \cup {t \o <<"LF">> : t \in Texts}

\* content left by earlier use of the file: longer than any line enumerated
OldText == [i \in 1..(MaxLen + 1) |-> "o"]

(***************************************************************************)
(* Literals of the source.                                                 *)
(***************************************************************************)
\* a slip in the name: the script works on another file of the directory
filename_Notes == "notes.txt"

filename == "my_goal.txt"
Files == {"my_goal.txt", "notes.txt"}   \* the files of the working directory
SepLen == 30
Header == <<"--- 2026 CAREER LOCKER ---">>
Prompt == <<"What is your ultimate goal for 2026? > ">>
Notice == <<"LF", "...Saving to disk...">>
Separator == [i \in 1..SepLen |-> "-"]
ConfirmPrefix == <<"U+2705", " CONFIRMED. Saved Goal: ">>
ConfirmLine(content) == ConfirmPrefix \o content

(***************************************************************************)
(* Library behaviour the script relies on.                                 *)
(***************************************************************************)
\* print(x): the text followed by a newline
PrintLn(stream, text) == stream \o text \o <<"LF">>

RECURSIVE FirstLF(_, _)
FirstLF(s, i) ==
    IF i > Len(s) THEN 0
    ELSE IF s[i] = "LF" THEN i
    ELSE FirstLF(s, i + 1)

\* input(): the characters up to the first newline, the newline stripped;
\* at end of file, what was read so far. Not defined on an empty stream.
InputLine(s) ==
    IF FirstLF(s, 1) = 0 THEN s ELSE SubSeq(s, 1, FirstLF(s, 1) - 1)

\* what input() leaves on the stream
AfterLine(s) ==
    IF FirstLF(s, 1) = 0 THEN <<>> ELSE SubSeq(s, FirstLF(s, 1) + 1, Len(s))

linesep == <<"LF">>

\* text-mode write, newline=None: each "\n" becomes os.linesep
RECURSIVE TextWrite(_)
TextWrite(s) ==
    IF s = <<>> THEN <<>>
    ELSE (IF Head(s) = "LF" THEN linesep ELSE <<Head(s)>>) \o TextWrite(Tail(s))

\* text-mode read, newline=None: "\r\n" and "\r" become "\n"
RECURSIVE TextRead(_)
TextRead(b) ==
    IF b = <<>> THEN <<>>
    ELSE IF Head(b) = "CR"
         THEN IF Len(b) >= 2 /\ b[2] = "LF"
              THEN <<"LF">> \o TextRead(Tail(Tail(b)))
              ELSE <<"LF">> \o TextRead(Tail(b))
         ELSE <<Head(b)>> \o TextRead(Tail(b))

\* a slip in the mode (such as "r+"): the content is kept at open
Truncate_Keep(content) == content

\* open(.., "w") on an existing file: its length becomes 0
Truncate(content) == <<>>

\* a slip in the mode ("a"): the buffer goes after the content
Overlay_Append(data, content) == content \o data

\* a buffer flushed at offset 0 of the file as it is then
Overlay(data, content) ==
    data \o SubSeq(content, Len(data) + 1, Len(content))

WriteHandle == [mode |-> "w", linked |-> TRUE]
ReadHandle == [mode |-> "r", linked |-> TRUE]

\* the handles a with-block releases when it is left
Release(hs, m) == {h \in hs : h.mode # m}

Terminal(p) == pc[p] \in {"done", "aborted"}

Absent == [exists |-> FALSE, content |-> <<>>, readable |-> TRUE, writer |-> 0]
Present(c, r, w) ==
    [exists |-> TRUE, content |-> c, readable |-> r, writer |-> w]

NoError == [exc |-> "none", at |-> "none"]

\* the file the script works on
disk == fs[filename]

(***************************************************************************)
(* The state before any run has started: the file is absent or is left     *)
(* over, empty or not, readable or not, from earlier.                      *)
(***************************************************************************)
Init ==
    /\ pc = [p \in ProcIds |-> "start"]
    /\ stdin = [p \in ProcIds |-> <<>>]
    /\ my_goal = [p \in ProcIds |-> <<>>]
    /\ saved_content = [p \in ProcIds |-> <<>>]
    /\ handles = [p \in ProcIds |-> {}]
    /\ buf = [p \in ProcIds |-> <<>>]
    /\ out = [p \in ProcIds |-> <<>>]
    /\ err = [p \in ProcIds |-> NoError]
    /\ \E d \in {Absent} \cup
                {Present(c, r, 0) : c \in {<<>>, OldText}, r \in BOOLEAN} :
          fs = [f \in Files |->
                  IF f = "my_goal.txt" THEN d ELSE Present(<<"a">>, TRUE, 0)]
    /\ dirWritable \in BOOLEAN
    /\ diskFull \in BOOLEAN
    /\ consoleUtf8 \in BOOLEAN
    /\ extOps = 0

\* a slip: the exception is noted and the statement is tried again
Abort_Retry(p, e) ==
    /\ pc' = pc
    /\ err' = [err EXCEPT ![p] = [exc |-> e, at |-> pc[p]]]

\* an uncaught exception: the traceback ends the process
Abort(p, e) ==
    /\ pc' = [pc EXCEPT ![p] = "aborted"]
    /\ err' = [err EXCEPT ![p] = [exc |-> e, at |-> pc[p]]]

\* the script is started with some stream on standard input; line 3
PrintHeader(p) ==
    /\ pc[p] = "start"
    /\ \E s \in Streams : stdin' = [stdin EXCEPT ![p] = s]
    /\ out' = [out EXCEPT ![p] = PrintLn(@, Header)]
    /\ pc' = [pc EXCEPT ![p] = "prompt"]
    /\ UNCHANGED <<my_goal, saved_content, handles, buf, err, fs, envVars,
                   extOps>>

\* line 4, a line (or a last unterminated line) is available
InputOk(p) ==
    /\ pc[p] = "prompt"
    /\ stdin[p] # <<>>
    /\ my_goal' = [my_goal EXCEPT ![p] = InputLine(stdin[p])]
    /\ stdin' = [stdin EXCEPT ![p] = AfterLine(@)]
    /\ out' = [out EXCEPT ![p] = @ \o Prompt]
    /\ pc' = [pc EXCEPT ![p] = "open_w"]
    /\ UNCHANGED <<saved_content, handles, buf, err, fs, envVars, extOps>>

\* a slip: end of file is taken for an empty line and the run goes on
InputEOF_EmptyLine(p) ==
    /\ pc[p] = "prompt"
    /\ stdin[p] = <<>>
    /\ out' = [out EXCEPT ![p] = @ \o Prompt]
    /\ pc' = [pc EXCEPT ![p] = "open_w"]
    /\ UNCHANGED <<stdin, my_goal, saved_content, handles, buf, err, fs,
                   envVars, extOps>>

\* line 4, standard input is at end of file: EOFError
InputEOF(p) ==
    /\ pc[p] = "prompt"
    /\ stdin[p] = <<>>
    /\ out' = [out EXCEPT ![p] = @ \o Prompt]
    /\ Abort(p, "EOFError")
    /\ UNCHANGED <<stdin, my_goal, saved_content, handles, buf, fs, envVars,
                   extOps>>

\* line 7: open(filename, "w") creates the file or truncates it
OpenW(p) ==
    /\ pc[p] = "open_w"
    /\ disk.exists \/ dirWritable
    /\ fs' = [fs EXCEPT ![filename] =
                 IF disk.exists
                 THEN [disk EXCEPT !.content = Truncate(@), !.writer = p]
                 ELSE Present(<<>>, TRUE, p)]
    /\ handles' = [handles EXCEPT ![p] = @ \cup {WriteHandle}]
    /\ pc' = [pc EXCEPT ![p] = "write"]
    /\ UNCHANGED <<stdin, my_goal, saved_content, buf, out, err, envVars,
                   extOps>>

\* line 7: the file cannot be created: OSError
OpenWFail(p) ==
    /\ pc[p] = "open_w"
    /\ ~(disk.exists \/ dirWritable)
    /\ Abort(p, "OSError")
    /\ UNCHANGED <<stdin, my_goal, saved_content, handles, buf, out, fs,
                   envVars, extOps>>

\* line 8: file.write(my_goal) fills the handle's buffer
Write(p) ==
    /\ pc[p] = "write"
    /\ buf' = [buf EXCEPT ![p] = @ \o TextWrite(my_goal[p])]
    /\ pc' = [pc EXCEPT ![p] = "close_w"]
    /\ UNCHANGED <<stdin, my_goal, saved_content, handles, out, err, fs,
                   envVars, extOps>>

\* the file once the buffer of run p is flushed through its handle
Flushed(p) ==
    IF WriteHandle \in handles[p]
    THEN [disk EXCEPT !.content = Overlay(buf[p], @), !.writer = p]
    ELSE disk

\* a slip: open() without with, and no close()
AfterWriteBlock_Leak(p) == handles[p]

\* the handles of run p once the first with-block is left
AfterWriteBlock(p) == Release(handles[p], "w")

\* a slip: open() without with, and no close()
AfterReadBlock_Leak(p) == handles[p]

\* the handles of run p once the second with-block is left
AfterReadBlock(p) == Release(handles[p], "r")

\* leaving the with-block of lines 7-8: flush, then close
CloseW(p) ==
    /\ pc[p] = "close_w"
    /\ ~(diskFull /\ buf[p] # <<>>)
    /\ fs' = [fs EXCEPT ![filename] = Flushed(p)]
    /\ buf' = [buf EXCEPT ![p] = <<>>]
    /\ handles' = [handles EXCEPT ![p] = AfterWriteBlock(p)]
    /\ pc' = [pc EXCEPT ![p] = "notice"]
    /\ UNCHANGED <<stdin, my_goal, saved_content, out, err, envVars, extOps>>

\* leaving the with-block of lines 7-8: the flush fails, the handle is
\* closed all the same, OSError
CloseWFail(p) ==
    /\ pc[p] = "close_w"
    /\ diskFull /\ buf[p] # <<>>
    /\ buf' = [buf EXCEPT ![p] = <<>>]
    /\ handles' = [handles EXCEPT ![p] = AfterWriteBlock(p)]
    /\ Abort(p, "OSError")
    /\ UNCHANGED <<stdin, my_goal, saved_content, out, fs, envVars, extOps>>

\* a slip: lines 10 and 11 in the other order
NoticePrinted_SeparatorFirst(p) == PrintLn(PrintLn(out[p], Separator), Notice)

\* the output of run p once lines 10 and 11 have printed
NoticePrinted(p) == PrintLn(PrintLn(out[p], Notice), Separator)

\* lines 10-11
PrintNotice(p) ==
    /\ pc[p] = "notice"
    /\ out' = [out EXCEPT ![p] = NoticePrinted(p)]
    /\ pc' = [pc EXCEPT ![p] = "open_r"]
    /\ UNCHANGED <<stdin, my_goal, saved_content, handles, buf, err, fs,
                   envVars, extOps>>

\* what file.read() of line 14 returns to run p
ReadBack(p) == TextRead(disk.content)

\* lines 13-14: open(filename, "r") and file.read(). The two are one step:
\* a change of the file between them is seen by the read as if made before
\* the open, and a removal as if made after the read.
OpenRead(p) ==
    /\ pc[p] = "open_r"
    /\ disk.exists /\ disk.readable
    /\ handles' = [handles EXCEPT ![p] = @ \cup {ReadHandle}]
    /\ saved_content' = [saved_content EXCEPT ![p] = ReadBack(p)]
    /\ pc' = [pc EXCEPT ![p] = "confirm"]
    /\ UNCHANGED <<stdin, my_goal, buf, out, err, fs, envVars, extOps>>

\* line 13: the file is gone or may not be read: OSError
OpenRFail(p) ==
    /\ pc[p] = "open_r"
    /\ ~(disk.exists /\ disk.readable)
    /\ Abort(p, "OSError")
    /\ UNCHANGED <<stdin, my_goal, saved_content, handles, buf, out, fs,
                   envVars, extOps>>

\* the output of run p once line 15 has printed
ConfirmPrinted(p) == PrintLn(out[p], ConfirmLine(saved_content[p]))

\* line 15
PrintConfirm(p) ==
    /\ pc[p] = "confirm"
    /\ consoleUtf8
    /\ out' = [out EXCEPT ![p] = ConfirmPrinted(p)]
    /\ pc' = [pc EXCEPT ![p] = "sep"]
    /\ UNCHANGED <<stdin, my_goal, saved_content, handles, buf, err, fs,
                   envVars, extOps>>

\* line 15: standard output cannot encode U+2705: UnicodeEncodeError, and
\* the with-block is left
PrintConfirmFail(p) ==
    /\ pc[p] = "confirm"
    /\ ~consoleUtf8
    /\ handles' = [handles EXCEPT ![p] = AfterReadBlock(p)]
    /\ Abort(p, "UnicodeEncodeError")
    /\ UNCHANGED <<stdin, my_goal, saved_content, buf, out, fs, envVars,
                   extOps>>

\* line 16
PrintSep(p) ==
    /\ pc[p] = "sep"
    /\ out' = [out EXCEPT ![p] = PrintLn(@, Separator)]
    /\ pc' = [pc EXCEPT ![p] = "close_r"]
    /\ UNCHANGED <<stdin, my_goal, saved_content, handles, buf, err, fs,
                   envVars, extOps>>

\* leaving the with-block of lines 13-16, and the end of the script
CloseR(p) ==
    /\ pc[p] = "close_r"
    /\ handles' = [handles EXCEPT ![p] = AfterReadBlock(p)]
    /\ pc' = [pc EXCEPT ![p] = "done"]
    /\ UNCHANGED <<stdin, my_goal, saved_content, buf, out, err, fs, envVars,
                   extOps>>

\* every statement after the first
Continue(p) ==
    \/ InputOk(p)
    \/ InputEOF(p)
    \/ OpenW(p)
    \/ OpenWFail(p)
    \/ Write(p)
    \/ CloseW(p)
    \/ CloseWFail(p)
    \/ PrintNotice(p)
    \/ OpenRead(p)
    \/ OpenRFail(p)
    \/ PrintConfirm(p)
    \/ PrintConfirmFail(p)
    \/ PrintSep(p)
    \/ CloseR(p)

Step(p) == PrintHeader(p) \/ Continue(p)

(***************************************************************************)
(* Other actors on the same directory.                                     *)
(***************************************************************************)
ExtTexts == SeqsUpTo({"a", "CR", "LF"}, MaxLen)

\* another actor rewrites my_goal.txt in place (or creates it)
ExtWrite ==
    /\ extOps < MaxExt
    /\ \E c \in ExtTexts :
          fs' = [fs EXCEPT !["my_goal.txt"] =
                   IF @.exists THEN [@ EXCEPT !.content = c, !.writer = 0]
                   ELSE Present(c, TRUE, 0)]
    /\ extOps' = extOps + 1
    /\ UNCHANGED <<procVars, envVars>>

\* another actor removes my_goal.txt; handles open on it stay usable but
\* no longer reach the directory entry
ExtDelete ==
    /\ extOps < MaxExt
    /\ fs["my_goal.txt"].exists
    /\ fs' = [fs EXCEPT !["my_goal.txt"] = Absent]
    /\ handles' = [p \in ProcIds |->
                     {[h EXCEPT !.linked = FALSE] : h \in handles[p]}]
    /\ extOps' = extOps + 1
    /\ UNCHANGED <<pc, stdin, my_goal, saved_content, buf, out, err, envVars>>

(***************************************************************************)
(* Specifications.                                                         *)
(***************************************************************************)
\* one run, and other actors changing or removing the file meanwhile
Next ==
    \/ Step(1)
    \/ ExtWrite
    \/ ExtDelete

Spec == Init /\ [][Next]_vars

\* runs made one after the other: a run starts when the one before it ended
Turn(p) == \A q \in Runs : q < p => Terminal(q)

StartInTurn(p) == Turn(p) /\ PrintHeader(p)

NextSeq == \E p \in Runs : StartInTurn(p) \/ Continue(p)

SpecSeq == Init /\ [][NextSeq]_vars

\* two instances interleaved at will, nobody else touching the file
NextRace == \E p \in Instances : Step(p)

SpecRace == Init /\ [][NextRace]_vars

(***************************************************************************)
(* Reading the state.                                                      *)
(***************************************************************************)
\* run p has printed its confirmation line
HasConfirmed(p) == pc[p] \in {"sep", "close_r", "done"}

\* run p holds an input line
HasInput(p) == pc[p] \notin {"start", "prompt"} /\ err[p].exc # "EOFError"

\* where the confirmation line starts in the output of run p
ConfirmPos(p) == CHOOSE i \in 1..Len(out[p]) : out[p][i] = ConfirmPrefix[1]

\* what follows the confirmation line in the output of run p: its newline
\* and, once printed, the trailing separator and its newline
Trailer(p) == IF pc[p] = "sep" THEN 1 ELSE 1 + SepLen + 1

\* the content interpolated into the confirmation line of run p
Confirmed(p) ==
    SubSeq(out[p], ConfirmPos(p) + Len(ConfirmPrefix), Len(out[p]) - Trailer(p))

\* no run after p has started
LastRun(p) == \A q \in Runs : q > p => pc[q] = "start"

(***************************************************************************)
(* C1. Round trip: in runs made one after the other, with nobody else      *)
(* touching the file, the content a finished run has confirmed is exactly  *)
(* its input, and after the last run an empty input has left an empty      *)
(* file.                                                                   *)
(***************************************************************************)
C1_RoundTrip ==
    \A p \in Runs :
        pc[p] = "done" =>
            /\ Confirmed(p) = my_goal[p]
            /\ (my_goal[p] = <<>> /\ LastRun(p)) => disk.content = <<>>

(***************************************************************************)
(* C2. Overwrite, not append: after runs made one after the other, the     *)
(* file holds exactly the input of the last run that completed, whatever   *)
(* the earlier runs wrote and whatever the file held before.               *)
(***************************************************************************)
C2_Overwrite ==
    \A p \in Runs :
        (pc[p] = "done" /\ LastRun(p)) =>
            disk.exists /\ disk.content = my_goal[p]

\* a second run has completed with a shorter input than the first, over a
\* file that held longer content before the first
C2_Witness ==
    /\ pc[1] = "done" /\ pc[2] = "done"
    /\ my_goal[1] = <<"a", "CR">>
    /\ my_goal[2] = <<"a">>
    /\ disk.content = <<"a">>

\* the file was last changed by another actor, after run p closed its
\* write handle
ChangedSinceWrite(p) == pc[p] = "open_r" /\ disk.exists /\ disk.writer = 0

(***************************************************************************)
(* C3. The confirmation shows the file, not the variable: when another     *)
(* actor has changed the file after the run's write completed and before   *)
(* its read, the content read back is the changed content of the file,     *)
(* and it is what the confirmation line shows.                             *)
(***************************************************************************)
C3_ConfirmsFile ==
    [][/\ (ChangedSinceWrite(1) /\ pc'[1] = "confirm")
          => saved_content'[1] = disk.content
       /\ (pc[1] = "confirm" /\ pc'[1] = "sep")
          => Confirmed(1)' = saved_content[1]]_vars

\* text t holds no carriage return
NoCR(t) == \A i \in 1..Len(t) : t[i] # "CR"

(***************************************************************************)
(* C4. Last writer wins: with two instances interleaved (and inputs that   *)
(* a text-mode read returns unchanged), the content an instance confirms   *)
(* is the input of one of the instances that hold an input, never an       *)
(* empty, partial or mixed content.                                        *)
(***************************************************************************)
C4_LastWriterWins ==
    \A p \in Instances :
        (HasConfirmed(p) /\ \A q \in Instances : NoCR(my_goal[q])) =>
            Confirmed(p) \in {my_goal[q] : q \in {r \in Instances : HasInput(r)}}

\* text a over the start of text b: a, then what of b lies beyond its length
LaidOver(a, b) == a \o [i \in 1..(Len(b) - Len(a)) |-> b[Len(a) + i]]

\* the contents the file can hold when p reads it, q being the other instance
RaceContents(p, q) ==
    {<<>>, my_goal[p], my_goal[q],
     LaidOver(my_goal[p], my_goal[q]), LaidOver(my_goal[q], my_goal[p])}

\* C4 as amended: an instance confirms what a text-mode read finds in the
\* file at its read: its own input, the other instance's input, nothing
\* (the other instance has truncated the file and not yet flushed), or one
\* input laid over the start of the other (both truncated before either
\* flushed); and its own input as long as the other instance has not opened
\* the file.
C4_FileAtRead ==
    \A p \in Instances : \A q \in Instances \ {p} :
        HasConfirmed(p) =>
            /\ Confirmed(p) \in {TextRead(c) : c \in RaceContents(p, q)}
            /\ pc[q] \in {"start", "prompt", "open_w"}
                  => Confirmed(p) = TextRead(my_goal[p])

\* instance 1 has confirmed a mix: its own input over the start of the
\* other instance's
C4_Witness ==
    /\ pc[1] = "done"
    /\ my_goal[1] = <<"CR">>
    /\ my_goal[2] = <<"a", "a">>
    /\ Confirmed(1) = <<"LF", "a">>

(***************************************************************************)
(* C5. Handles are released on every exit path: a run that has ended,      *)
(* normally or with an error raised while writing, reading or printing     *)
(* the report, holds no open handle on the file.                           *)
(***************************************************************************)
C5_HandlesReleased == \A p \in ProcIds : Terminal(p) => handles[p] = {}

\* the run was ended by an error raised inside the second with-block
C5_Witness ==
    /\ pc[1] = "aborted"
    /\ err[1] = [exc |-> "UnicodeEncodeError", at |-> "confirm"]
    /\ handles[1] = {}

\* the output of run p holds a confirmation line
HasConfirmLine(p) == \E i \in 1..Len(out[p]) : out[p][i] = ConfirmPrefix[1]

\* the output of run p holds the progress notice
HasNoticeLine(p) == \E i \in 1..Len(out[p]) : out[p][i] = Notice[2]

(***************************************************************************)
(* C6. A failure aborts the run, with no retry and no recovery: when the   *)
(* file cannot be opened for writing or for reading, the statement ends    *)
(* the run with an error and leaves the files alone; a run ended by an     *)
(* error has printed no confirmation line; and a run that has ended does   *)
(* nothing more: its output and handles stay as they are and the files     *)
(* change only by the hand of other actors.                                *)
(***************************************************************************)
C6_AbortsWithoutRetry ==
    /\ [](\A p \in ProcIds :
             err[p].exc # "none" => pc[p] = "aborted" /\ ~HasConfirmLine(p))
    /\ [][\A p \in ProcIds :
             /\ (pc[p] = "open_w" /\ ~(disk.exists \/ dirWritable)
                    /\ pc'[p] # pc[p])
                => (pc'[p] = "aborted" /\ err'[p].exc = "OSError" /\ fs' = fs)
             /\ (pc[p] = "open_r" /\ ~(disk.exists /\ disk.readable)
                    /\ pc'[p] # pc[p])
                => (pc'[p] = "aborted" /\ err'[p].exc = "OSError" /\ fs' = fs)
             /\ pc[p] = "aborted"
                => /\ pc'[p] = "aborted"
                   /\ out'[p] = out[p]
                   /\ handles'[p] = handles[p]
                   /\ fs' # fs => extOps' # extOps]_vars

\* the file was removed between the write and the read, and the run ended
\* at line 13
C6_Witness ==
    /\ pc[1] = "aborted"
    /\ err[1] = [exc |-> "OSError", at |-> "open_r"]
    /\ ~disk.exists
    /\ HasNoticeLine(1)

(***************************************************************************)
(* C7. End of file at the prompt: when standard input holds nothing, the   *)
(* prompt statement ends the run with an error and leaves the files as     *)
(* they are; a run ended so has not created, truncated or written the      *)
(* file, and has printed neither the progress notice nor a confirmation.   *)
(***************************************************************************)
C7_EOFAtPrompt ==
    /\ [](\A p \in ProcIds :
             err[p].exc = "EOFError" =>
                 /\ pc[p] = "aborted" /\ err[p].at = "prompt"
                 /\ fs["my_goal.txt"].writer # p
                 /\ handles[p] = {}
                 /\ ~HasNoticeLine(p) /\ ~HasConfirmLine(p))
    /\ [][\A p \in ProcIds :
             (pc[p] = "prompt" /\ stdin[p] = <<>> /\ pc'[p] # pc[p])
             => (pc'[p] = "aborted" /\ err'[p].exc = "EOFError" /\ fs' = fs)]_vars

\* the run ended at the prompt and the earlier content is still there
C7_Witness ==
    /\ pc[1] = "aborted"
    /\ err[1].exc = "EOFError"
    /\ fs["my_goal.txt"] = Present(OldText, TRUE, 0)

\* the statements in the order of the script, and the phase of each
Order(l) ==
    CASE l = "start" -> 1 [] l = "prompt" -> 2
      [] l = "open_w" -> 3 [] l = "write" -> 4 [] l = "close_w" -> 5
      [] l = "notice" -> 6
      [] l = "open_r" -> 7
      [] l = "confirm" -> 8 [] l = "sep" -> 9 [] l = "close_r" -> 10
      [] l = "done" -> 11
      [] OTHER -> 12

PhaseOf(l) ==
    CASE l \in {"start", "prompt"} -> 1                     \* PROMPT
      [] l \in {"open_w", "write", "close_w", "notice"} -> 2 \* WRITE
      [] l = "open_r" -> 3                                  \* READ
      [] l \in {"confirm", "sep", "close_r"} -> 4           \* REPORT
      [] l = "done" -> 5                                    \* DONE
      [] OTHER -> 6

\* the whole output of a run that confirms saved_content
Report(p) ==
    PrintLn(<<>>, Header) \o Prompt \o PrintLn(<<>>, Notice)
        \o PrintLn(<<>>, [i \in 1..30 |-> "-"])
        \o PrintLn(<<>>, ConfirmPrefix \o saved_content[p])
        \o PrintLn(<<>>, [i \in 1..30 |-> "-"])

(***************************************************************************)
(* C8. Phases and output: a run moves forward only, statement by           *)
(* statement, from a phase to itself or to the next one of PROMPT, WRITE,  *)
(* READ, REPORT, DONE (or it is ended by an error), and a run that reached *)
(* DONE has printed exactly: the header, the prompt, the progress notice,  *)
(* a separator of 30 hyphens, the confirmation line and a separator of 30  *)
(* hyphens.                                                                *)
(***************************************************************************)
C8_PhasesInOrder ==
    /\ [](\A p \in ProcIds : pc[p] = "done" => out[p] = Report(p))
    /\ [][\A p \in ProcIds :
             pc'[p] # pc[p] =>
                 /\ ~Terminal(p)
                 /\ \/ pc'[p] = "aborted"
                    \/ /\ Order(pc'[p]) > Order(pc[p])
                       /\ PhaseOf(pc'[p]) \in
                             {PhaseOf(pc[p]), PhaseOf(pc[p]) + 1}]_vars

\* a run has reached DONE
C8_Witness == pc[1] = "done" /\ Confirmed(1) = <<"a">>

(***************************************************************************)
(* C9. Frame: no step changes a file other than my_goal.txt; opening for   *)
(* writing leaves my_goal.txt in existence, last changed by the run; and   *)
(* the statements of the read and of the report leave my_goal.txt as it    *)
(* is.                                                                     *)
(***************************************************************************)
C9_Frame ==
    [][/\ \A f \in Files \ {"my_goal.txt"} : fs'[f] = fs[f]
       /\ \A p \in ProcIds :
             /\ (pc[p] = "open_w" /\ pc'[p] = "write")
                => (fs'["my_goal.txt"].exists /\ fs'["my_goal.txt"].writer = p)
             /\ (pc[p] \in {"open_r", "confirm", "sep", "close_r"}
                    /\ pc'[p] # pc[p])
                => fs' = fs]_vars

\* a run has completed over earlier content and the file is its own
C9_Witness ==
    /\ pc[1] = "done"
    /\ fs["my_goal.txt"].writer = 1
    /\ fs["my_goal.txt"].content = <<"a">>
    /\ fs["notes.txt"].content = <<"a">>

(***************************************************************************)
(* C10. The write comes before everything after it: a run holds at most    *)
(* one open handle; once the progress notice is printed the write handle   *)
(* is closed and its buffer flushed; the read handle is opened only after  *)
(* the notice; a run ended by an error of the write phase has not printed  *)
(* the notice; and the read handle is open while the confirmation line     *)
(* and the trailing separator are printed.                                 *)
(***************************************************************************)
C10_WriteBeforeNotice ==
    \A p \in ProcIds :
        /\ Cardinality(handles[p]) <= 1
        /\ HasNoticeLine(p)
              => (buf[p] = <<>> /\ \A h \in handles[p] : h.mode # "w")
        /\ (\E h \in handles[p] : h.mode = "r") => HasNoticeLine(p)
        /\ err[p].at \in {"open_w", "write", "close_w"} => ~HasNoticeLine(p)
        /\ pc[p] \in {"confirm", "sep", "close_r"}
              => \E h \in handles[p] : h.mode = "r"

\* the trailing separator is printed and the read handle is still open
C10_Witness ==
    /\ pc[1] = "close_r"
    /\ \E h \in handles[1] : h.mode = "r"
    /\ HasConfirmLine(1)

====
